---- MODULE Spec2Model ----
(***************************************************************************)
(* Model of richter's brush renderer (src/client/render/brush.rs) and of   *)
(* the in-game focus state machine (src/bin/quake-client/game.rs).         *)
(*                                                                         *)
(* Rust slices and Vecs are 0-based; they are modelled as TLA+ sequences   *)
(* read through At(s, i) == s[i + 1].  Option<T> is modelled as a sequence *)
(* of length 0 (None) or 1 (Some).  f32 quotients are kept as exact        *)
(* fractions <<numerator, denominator>>.                                   *)
(***************************************************************************)
EXTENDS Integers, Sequences, FiniteSets, TLC

(* ------------------------------ bounds --------------------------------- *)
\* largest edge_count of a face of the level
MaxEdges == 4
\* largest number of faces in the level's face table
MaxFaces == 2
\* render times are 0 .. MaxTime
MaxTime == 1
\* intensities are multiples of 1/Unit: the f32 1.0 is Unit, the f32 -1 is -Unit
Unit == 2
\* number of bytes in the packed lightmap sample buffer
LightmapsLen == 14
\* largest number of Game::handle_input calls
MaxEvents == 2

(* ------------------------------ helpers -------------------------------- *)
At(s, i) == s[i + 1]
None == <<>>
Some(x) == <<x>>
IsSome(o) == Len(o) = 1
Unwrap(o) == o[1]
Dot(a, b) == a[1] * b[1] + a[2] * b[2] + a[3] * b[3]
Slice(s, lo, hi) == [k \in 1..(hi - lo) |-> s[lo + k]]

(* ------------------------- the level (BspData) ------------------------- *)
EdgeListLen == MaxEdges + 1
\* bsp_data.edges(): edge k joins vertices 2k and 2k+1
BspEdges == [k \in 1..EdgeListLen |-> [vertex_ids |-> <<2 * (k - 1), 2 * (k - 1) + 1>>]]
\* bsp_data.edgelist(): entries walk the edges backwards, alternating direction
BspEdgelist == [k \in 1..EdgeListLen |-> [index |-> EdgeListLen - k, direction |-> (k - 1) % 2]]
\* bsp_data.vertices(): positions
BspVertices == [v \in 1..(2 * EdgeListLen) |-> <<v - 1, ((v - 1) * (v - 1)) % 7, 1>>]
\* bsp_data.texinfo(): texinfo 0 is an ordinary surface, texinfo 1 a special one
BspTexinfo == <<
  [s_vector |-> <<1, 0, 0>>, s_offset |-> 0, t_vector |-> <<0, 1, 0>>, t_offset |-> 3, tex_id |-> 0, special |-> FALSE],
  [s_vector |-> <<0, 1, 0>>, s_offset |-> 2, t_vector |-> <<0, 0, 1>>, t_offset |-> 0, tex_id |-> 1, special |-> TRUE] >>
\* bsp_data.textures(): texture 0 animates through frames 0 and 2
BspTextures == <<
  [width |-> 64, height |-> 64, frames |-> <<0, 2>>],
  [width |-> 32, height |-> 16, frames |-> <<1>>],
  [width |-> 64, height |-> 64, frames |-> <<2, 0>>] >>
\* bsp_data.lightmaps(): the packed lightmap samples
BspLightmaps == [k \in 1..LightmapsLen |-> ((k - 1) * 37 + 5) % 256]

\* light_styles of a face with no dynamic style
NoStyles == <<255, 255, 255, 255>>
LightStyleSets == {NoStyles, <<0, 1, 255, 255>>, <<255, 0, 255, 1>>}
ExtentSets == {<<16, 17>>, <<32, 48>>}
LightmapOffsets == {None, Some(2), Some(LightmapsLen - 1)}

BspFace(edge_id, edge_count, texinfo_id, lightmap_id, extents, light_styles) ==
  [edge_id |-> edge_id, edge_count |-> edge_count, texinfo_id |-> texinfo_id,
   lightmap_id |-> lightmap_id, extents |-> extents, texture_mins |-> <<0, -16>>,
   light_styles |-> light_styles]

\* faces that vary in geometry
GeomFaces == {BspFace(e, n, 0, None, <<16, 17>>, NoStyles) :
                e \in 0..1, n \in 0..MaxEdges}
\* triangles that vary in lighting
LitFaces == {BspFace(0, 3, t, l, x, NoStyles) :
                t \in 0..1, l \in LightmapOffsets, x \in ExtentSets}
\* unlit triangles that vary in light styles
StyledFaces == {BspFace(1, 3, 0, None, <<16, 17>>, s) : s \in LightStyleSets}
BspFaces == GeomFaces \cup LitFaces \cup StyledFaces

RECURSIVE SeqsUpTo(_, _)
SeqsUpTo(S, n) ==
  IF n = 0 THEN {<<>>}
  ELSE LET shorter == SeqsUpTo(S, n - 1)
       IN shorter \cup {Append(q, x) : q \in {r \in shorter : Len(r) = n - 1}, x \in S}

\* render's lightstyle_values argument
LightstyleValueArrays == {<<>>, <<1>>, <<1, Unit>>}

VARIABLES
  bsp_faces,        \* bsp_data.faces()
  bsp_model,        \* BspModel { face_id, face_count }
  pc,               \* BrushRenderer::new: "start", "new" (in the face loop),
                    \* "ready" (returned Ok), "err" (returned Err), "panic"
  vertices,         \* new's local Vec of vertices
  face_iter,        \* new's face loop: the next face_id of the range
  call,             \* the last create_brush_render_face call: its face_id, its
                    \* outcome, the vertices it appended, the face record it
                    \* returned and the images it added to lightmap_views
  faces,            \* BrushRenderer.faces
  vertex_buffer,    \* BrushRenderer.vertex_buffer
  lightmap_views,   \* BrushRenderer.lightmap_views
  texture_views,    \* BrushRenderer.texture_views
  render_result,    \* how the last BrushRenderer::render ended: "none", "ok"
  render_args,      \* arguments of the last render call
  draws,            \* encoder.draw calls of the last render call, in order
  first,            \* Some(vertex buffer and face table of an earlier
                    \* BrushRenderer::new over the same level) once new is
                    \* called a second time
  u_LightstyleValue, \* the fragment shader's uniform vec4
  light_factor,     \* Some(light_factor) once the fragment shader has run
  game_state,       \* Game.state: "Loading" or "InGame"
  focus,            \* InGameState.focus: Some(InGameFocus) once InGame
  cmds,             \* names registered in the CmdRegistry
  signon_stage,     \* client.signon_stage()
  input_focus,      \* the focus held by Input
  events,           \* events forwarded to input.handle_event, with the focus
                    \* Input held when each arrived
  exec,             \* the last command run: Some([cmd, before]), before being
                    \* the focus it started from
  overlay,          \* what the last Game::render drew over the world
  inputs,           \* number of Game::handle_input calls so far
  toggle_inserts    \* number of times the toggle commands were inserted
                    \* into the CmdRegistry (InGameState::new calls)

rendererVars == <<bsp_faces, bsp_model, pc, vertices, face_iter, call, faces, vertex_buffer,
                  lightmap_views, texture_views, render_result, render_args, draws,
                  first>>
shaderVars == <<u_LightstyleValue, light_factor>>
gameVars == <<game_state, focus, cmds, signon_stage, input_focus, events, exec, overlay,
              inputs, toggle_inserts>>
vars == <<rendererVars, shaderVars, gameVars>>

(* ------------------- create_brush_render_face -------------------------- *)
\* vertex_ids[direction] of an edge-list entry
EdgeVertexId(edge_id) == At(At(BspEdges, edge_id.index).vertex_ids, edge_id.direction)

DiffuseTexcoords(position, texinfo, tex) ==
  << <<Dot(position, texinfo.s_vector) + texinfo.s_offset, tex.width>>,
     <<Dot(position, texinfo.t_vector) + texinfo.t_offset, tex.height>> >>

calculate_lightmap_texcoords(position, face, texinfo) ==
  << <<Dot(texinfo.s_vector, position) + texinfo.s_offset - face.texture_mins[1], face.extents[1]>>,
     <<Dot(texinfo.t_vector, position) + texinfo.t_offset - face.texture_mins[2], face.extents[2]>> >>

BrushVertex(vertex_id, face, texinfo, tex) ==
  LET position == At(BspVertices, vertex_id)
  IN [position |-> position,
      diffuse_texcoord |-> DiffuseTexcoords(position, texinfo, tex),
      lightmap_texcoord |-> calculate_lightmap_texcoords(position, face, texinfo)]

\* FanTriangle pushing the (i + 1)th vertex before the ith
FanTriangle_Swapped(face_edge_ids, i, face, texinfo, tex) ==
  << BrushVertex(EdgeVertexId(At(face_edge_ids, 0)), face, texinfo, tex),
     BrushVertex(EdgeVertexId(At(face_edge_ids, i + 1)), face, texinfo, tex),
     BrushVertex(EdgeVertexId(At(face_edge_ids, i)), face, texinfo, tex) >>

\* one iteration of the fan loop: the base vertex, then the ith and (i + 1)th
FanTriangle(face_edge_ids, i, face, texinfo, tex) ==
  << BrushVertex(EdgeVertexId(At(face_edge_ids, 0)), face, texinfo, tex),
     BrushVertex(EdgeVertexId(At(face_edge_ids, i)), face, texinfo, tex),
     BrushVertex(EdgeVertexId(At(face_edge_ids, i + 1)), face, texinfo, tex) >>

\* for i in 1..face_edge_ids.len() - 1, pushing onto vertices
RECURSIVE FanLoop(_, _, _, _, _, _)
FanLoop(face_edge_ids, i, face, texinfo, tex, verts) ==
  IF i >= Len(face_edge_ids) - 1 THEN verts
  ELSE FanLoop(face_edge_ids, i + 1, face, texinfo, tex,
               verts \o FanTriangle(face_edge_ids, i, face, texinfo, tex))

\* LightmapW without the + 1
LightmapW_NoPlusOne(face) == face.extents[1] \div 16
LightmapW(face) == face.extents[1] \div 16 + 1
LightmapH(face) == face.extents[2] \div 16 + 1
LightmapSize(face) == LightmapW(face) * LightmapH(face)

\* does the face get a lightmap image: if !texinfo.special, if let Some(ofs)
WantsLightmap(face, texinfo) == (~texinfo.special) /\ IsSome(face.lightmap_id)

\* &bsp_data.lightmaps()[ofs..ofs + lightmap_size] is in bounds
LightmapInBounds(face) ==
  Unwrap(face.lightmap_id) + LightmapSize(face) <= Len(BspLightmaps)

\* the R8 image made from the face's samples; id is its index in lightmap_views
LightmapView(face, l_id) ==
  LET ofs == Unwrap(face.lightmap_id)
  IN [kind |-> "lightmap", id |-> l_id,
      width |-> LightmapW(face), height |-> LightmapH(face),
      data |-> Slice(BspLightmaps, ofs, ofs + LightmapSize(face))]

\* FaceSlice with start and end counted from the start of the buffer
FaceSlice_Absolute(face_vert_id, face_vert_count) ==
  [start |-> face_vert_id, end |-> face_vert_id + face_vert_count,
   base_vertex |-> face_vert_id]

\* the Slice of a face record
FaceSlice(face_vert_id, face_vert_count) ==
  [start |-> 0, end |-> face_vert_count, base_vertex |-> face_vert_id]

\* create_brush_render_face; factory_ok tells whether the factory's
\* create_texture_immutable_u8 succeeds.  outcome is "ok" (Ok(face)), "err"
\* (Err returned by ?) or "panic" (an out-of-bounds index).
create_brush_render_face(all_faces, face_id, verts, lm_views, factory_ok) ==
  LET face == At(all_faces, face_id)
      face_vert_id == Len(verts)
      texinfo == At(BspTexinfo, face.texinfo_id)
      tex == At(BspTextures, texinfo.tex_id)
      face_edge_ids == Slice(BspEdgelist, face.edge_id, face.edge_id + face.edge_count)
      stopped(how) == [outcome |-> how, face |-> <<>>, vertices |-> verts,
                       lightmap_views |-> lm_views]
  IN IF Len(face_edge_ids) = 0 THEN stopped("panic")   \* face_edge_ids[0]
     ELSE
       LET pushed == FanLoop(face_edge_ids, 1, face, texinfo, tex, verts)
           face_vert_count == Len(pushed) - face_vert_id
           record(lightmap_id) ==
             [slice |-> FaceSlice(face_vert_id, face_vert_count),
              tex_id |-> texinfo.tex_id,
              lightmap_id |-> lightmap_id,
              light_styles |-> face.light_styles]
       IN IF WantsLightmap(face, texinfo)
          THEN IF ~LightmapInBounds(face) THEN stopped("panic")
               ELSE IF ~factory_ok THEN stopped("err")
               ELSE [outcome |-> "ok", face |-> record(Some(Len(lm_views))),
                     vertices |-> pushed,
                     lightmap_views |-> Append(lm_views, LightmapView(face, Len(lm_views)))]
          ELSE [outcome |-> "ok", face |-> record(None), vertices |-> pushed,
                lightmap_views |-> lm_views]

(* --------------------------- BrushRenderer::new ------------------------- *)
NoCall == [face_id |-> -1, outcome |-> "none", pushed |-> <<>>, face |-> <<>>,
           images |-> <<>>]

\* the views new builds for bsp_data.textures(), one per texture
TextureViews == [k \in 1..Len(BspTextures) |-> [kind |-> "texture", id |-> k - 1]]
FullbrightViews == [k \in 1..Len(BspTextures) |-> [kind |-> "fullbright", id |-> k - 1]]
DummyLightmap == [kind |-> "dummy_lightmap"]
DummyTexture == [kind |-> "dummy_texture"]
DummyFullbright == [kind |-> "dummy_fullbright"]

RendererInit ==
  /\ bsp_faces \in SeqsUpTo(BspFaces, MaxFaces)
  /\ bsp_model \in {[face_id |-> i, face_count |-> Len(bsp_faces) - i] :
                      i \in {j \in 0..1 : j <= Len(bsp_faces)}}
  /\ pc = "start"
  /\ vertices = <<>>
  /\ face_iter = 0
  /\ call = NoCall
  /\ faces = <<>>
  /\ vertex_buffer = <<>>
  /\ lightmap_views = <<>>
  /\ texture_views = <<>>
  /\ render_result = "none"
  /\ render_args = <<>>
  /\ draws = <<>>
  /\ first = None

\* new leaves without a renderer: its locals are dropped
Abandon(how) ==
  /\ pc' = how
  /\ vertices' = <<>>
  /\ faces' = <<>>
  /\ lightmap_views' = <<>>

\* NewBegin going on with the vectors of the renderer built before
NewBegin_KeepsVecs ==
  /\ pc = "start"
  /\ \E factory_ok \in BOOLEAN :
       IF factory_ok
       THEN /\ pc' = "new"
            /\ UNCHANGED <<vertices, faces, lightmap_views>>
       ELSE Abandon("err")
  /\ face_iter' = bsp_model.face_id
  /\ UNCHANGED <<bsp_faces, bsp_model, call, vertex_buffer, texture_views,
                 render_result, render_args, draws, first, shaderVars, gameVars>>

\* the three Vec::new() and create_pipeline_state(factory)?
NewBegin ==
  /\ pc = "start"
  /\ \E factory_ok \in BOOLEAN :
       IF factory_ok
       THEN /\ pc' = "new"
            /\ vertices' = <<>>
            /\ faces' = <<>>
            /\ lightmap_views' = <<>>
       ELSE Abandon("err")
  /\ face_iter' = bsp_model.face_id
  /\ UNCHANGED <<bsp_faces, bsp_model, call, vertex_buffer, texture_views,
                 render_result, render_args, draws, first, shaderVars, gameVars>>

\* the next face_id of for face_id in bsp_model.face_id..face_id + face_count
NextFaceId == face_iter

\* one iteration of the face loop: faces.push(create_brush_render_face(..)?)
NewFace ==
  /\ pc = "new"
  /\ face_iter < bsp_model.face_id + bsp_model.face_count
  /\ face_iter' = face_iter + 1
  /\ \E factory_ok \in BOOLEAN :
       LET r == create_brush_render_face(bsp_faces, NextFaceId, vertices,
                                         lightmap_views, factory_ok)
       IN /\ call' = [face_id |-> NextFaceId, outcome |-> r.outcome,
                      pushed |-> SubSeq(r.vertices, Len(vertices) + 1, Len(r.vertices)),
                      face |-> r.face,
                      images |-> SubSeq(r.lightmap_views, Len(lightmap_views) + 1,
                                        Len(r.lightmap_views))]
          /\ IF r.outcome = "ok"
             THEN /\ faces' = Append(faces, r.face)
                  /\ vertices' = r.vertices
                  /\ lightmap_views' = r.lightmap_views
                  /\ pc' = pc
             ELSE Abandon(r.outcome)
  /\ UNCHANGED <<bsp_faces, bsp_model, vertex_buffer, texture_views,
                 render_result, render_args, draws, first, shaderVars, gameVars>>

\* after the loop: the vertex buffer, the texture views, Ok(BrushRenderer {..})
NewFinish ==
  /\ pc = "new"
  /\ face_iter >= bsp_model.face_id + bsp_model.face_count
  /\ \E factory_ok \in BOOLEAN :
       IF factory_ok
       THEN /\ pc' = "ready"
            /\ vertex_buffer' = vertices
            /\ texture_views' = TextureViews
            /\ UNCHANGED <<vertices, faces, lightmap_views>>
       ELSE /\ Abandon("err")
            /\ UNCHANGED <<vertex_buffer, texture_views>>
  /\ UNCHANGED <<bsp_faces, bsp_model, face_iter, call, render_result, render_args,
                 draws, first, shaderVars, gameVars>>

\* the caller keeps the renderer it has and calls BrushRenderer::new again
\* over the same model, palette and Spatial Data
NewAgain ==
  /\ pc = "ready"
  /\ first = None
  /\ first' = Some([vertex_buffer |-> vertex_buffer, faces |-> faces])
  /\ pc' = "start"
  /\ UNCHANGED <<bsp_faces, bsp_model, vertices, face_iter, call, faces,
                 vertex_buffer, lightmap_views, texture_views, render_result,
                 render_args, draws, shaderVars, gameVars>>

(* -------------------------- BrushRenderer::render ---------------------- *)
\* bsp_data.texture_frame_for_time(tex_id, time)
texture_frame_for_time(tex_id, time) ==
  LET frames == At(BspTextures, tex_id).frames
  IN At(frames, time % Len(frames))

create_pipeline_data ==
  [vertex_buffer |-> vertex_buffer,
   diffuse_sampler |-> DummyTexture,
   fullbright_sampler |-> DummyFullbright,
   lightmap_sampler |-> DummyLightmap,
   lightstyle_value |-> <<0, 0, 0, 0>>]

\* lightstyle_values.get(style as usize)
GetStyle(lightstyle_values, style) ==
  IF style < Len(lightstyle_values) THEN Some(At(lightstyle_values, style)) ELSE None

\* let mut lightstyle_value = [-1.0; 4]; for i in 0..4 { if let Some(l) = .. }
LightstyleValue(face, lightstyle_values) ==
  [i \in 1..4 |->
     LET l == GetStyle(lightstyle_values, face.light_styles[i])
     IN IF IsSome(l) THEN Unwrap(l) ELSE -Unit]

\* FaceLightmap leaving the reused pipeline data alone for a face without a lightmap
FaceLightmap_Stale(pipeline_data, face) ==
  IF IsSome(face.lightmap_id) THEN At(lightmap_views, Unwrap(face.lightmap_id))
  ELSE pipeline_data.lightmap_sampler

\* pipeline_data.lightmap_sampler.0 = match face.lightmap_id { .. }
FaceLightmap(pipeline_data, face) ==
  IF IsSome(face.lightmap_id) THEN At(lightmap_views, Unwrap(face.lightmap_id))
  ELSE DummyLightmap

\* BindFace with the lane vector declared outside the face loop: an inactive
\* slot keeps the lane of the face drawn before
BindFace_LanesCarryOver(pipeline_data, face, time, lightstyle_values) ==
  LET frame == texture_frame_for_time(face.tex_id, time)
  IN [pipeline_data EXCEPT
        !.vertex_buffer = vertex_buffer,
        !.diffuse_sampler = At(texture_views, frame),
        !.fullbright_sampler = At(FullbrightViews, frame),
        !.lightmap_sampler = FaceLightmap(pipeline_data, face),
        !.lightstyle_value =
           [i \in 1..4 |->
              LET l == GetStyle(lightstyle_values, face.light_styles[i])
              IN IF IsSome(l) THEN Unwrap(l) ELSE pipeline_data.lightstyle_value[i]]]

\* the body of the face loop up to the draw: pipeline_data as the draw sees it
BindFace(pipeline_data, face, time, lightstyle_values) ==
  LET frame == texture_frame_for_time(face.tex_id, time)
  IN [pipeline_data EXCEPT
        !.vertex_buffer = vertex_buffer,
        !.diffuse_sampler = At(texture_views, frame),
        !.fullbright_sampler = At(FullbrightViews, frame),
        !.lightmap_sampler = FaceLightmap(pipeline_data, face),
        !.lightstyle_value = LightstyleValue(face, lightstyle_values)]

\* encoder.draw(&face.slice, &self.pipeline_state, &pipeline_data)
Draw(slice, pipeline_data) == [slice |-> slice, data |-> pipeline_data]

\* RenderLoop stopping one face record early
RECURSIVE RenderLoop_StopsEarly(_, _, _, _, _)
RenderLoop_StopsEarly(k, pipeline_data, time, lightstyle_values, encoder) ==
  IF k >= Len(faces) - 1 THEN encoder
  ELSE LET face == At(faces, k)
           bound == BindFace(pipeline_data, face, time, lightstyle_values)
       IN RenderLoop_StopsEarly(k + 1, bound, time, lightstyle_values,
                                Append(encoder, Draw(face.slice, bound)))

\* for face in self.faces.iter(), from the k-th face on (k is 0-based)
RECURSIVE RenderLoop(_, _, _, _, _)
RenderLoop(k, pipeline_data, time, lightstyle_values, encoder) ==
  IF k >= Len(faces) THEN encoder
  ELSE LET face == At(faces, k)
           bound == BindFace(pipeline_data, face, time, lightstyle_values)
       IN RenderLoop(k + 1, bound, time, lightstyle_values,
                     Append(encoder, Draw(face.slice, bound)))

Render ==
  /\ pc = "ready"
  /\ \E time \in 0..MaxTime, lightstyle_values \in LightstyleValueArrays :
       /\ render_args' = [time |-> time, lightstyle_values |-> lightstyle_values]
       /\ draws' = RenderLoop(0, create_pipeline_data, time, lightstyle_values, <<>>)
  /\ render_result' = "ok"
  /\ UNCHANGED <<bsp_faces, bsp_model, pc, vertices, face_iter, call, faces,
                 vertex_buffer, lightmap_views, texture_views, first, shaderVars,
                 gameVars>>

(* ------------------- BRUSH_FRAGMENT_SHADER_GLSL ------------------------ *)
\* a lane holds the sentinel -1 or an intensity 0, 1/Unit, .., 1
LaneValues == {-Unit} \cup (0..Unit)

\* ShaderLoop going on past an inactive lane instead of breaking
RECURSIVE ShaderLoop_NoBreak(_, _, _, _)
ShaderLoop_NoBreak(u, i, factor, lightstyle_count) ==
  IF i >= 4 THEN <<factor, lightstyle_count>>
  ELSE IF At(u, i) # -Unit
       THEN ShaderLoop_NoBreak(u, i + 1, factor + At(u, i), i + 1)
       ELSE ShaderLoop_NoBreak(u, i + 1, factor, lightstyle_count)

\* for (int i = 0; i < 4; i++) { if (u[i] != -1) { .. } else { break; } }
RECURSIVE ShaderLoop(_, _, _, _)
ShaderLoop(u, i, factor, lightstyle_count) ==
  IF i >= 4 THEN <<factor, lightstyle_count>>
  ELSE IF At(u, i) # -Unit
       THEN ShaderLoop(u, i + 1, factor + At(u, i), i + 1)
       ELSE <<factor, lightstyle_count>>

\* light_factor after the if (lightstyle_count != 0), as the fraction
\* <<numerator, denominator>> in units of 1/Unit
LightFactor(u) ==
  LET r == ShaderLoop(u, 0, 0, 0)
  IN IF r[2] # 0 THEN <<r[1], r[2]>> ELSE <<Unit, 1>>

ShaderIdle ==
  /\ u_LightstyleValue = <<0, 0, 0, 0>>
  /\ light_factor = None

ShaderInit ==
  /\ u_LightstyleValue \in [1..4 -> LaneValues]
  /\ light_factor = None

\* one run of the fragment shader's main
FragmentMain ==
  /\ light_factor = None
  /\ light_factor' = Some(LightFactor(u_LightstyleValue))
  /\ UNCHANGED <<u_LightstyleValue, rendererVars, gameVars>>

(* ------------------------------ game.rs -------------------------------- *)
InGameFocus == {"Game", "Menu", "Console"}
\* SignOnStage, in sign-on order
SignOnStages == {"Not", "Prespawn", "ClientInfo", "Begin", "Done"}
\* a command Input registers (input.register_cmds) besides the two toggles
OtherCmd == "+forward"
Events == {"key", "mouse"}

\* toggleconsole opening the console from the menu
toggleconsole_FromMenu(f) ==
  CASE f = "Game" -> "Console"
    [] f = "Console" -> "Game"
    [] f = "Menu" -> "Console"

\* the toggleconsole closure: the focus it leaves
toggleconsole(f) ==
  CASE f = "Game" -> "Console"
    [] f = "Console" -> "Game"
    [] f = "Menu" -> f

\* togglemenu leaving the console open
togglemenu_ConsoleStays(f) ==
  CASE f = "Game" -> "Menu"
    [] f = "Menu" -> "Game"
    [] f = "Console" -> f

\* the togglemenu closure: the focus it leaves
togglemenu(f) ==
  CASE f = "Game" -> "Menu"
    [] f \in {"Menu", "Console"} -> "Game"

\* Game::new
GameInit ==
  /\ game_state = "Loading"
  /\ focus = None
  /\ cmds = {OtherCmd}
  /\ signon_stage = "Not"
  /\ input_focus = "Game"
  /\ events = <<>>
  /\ exec = None
  /\ overlay = "none"
  /\ inputs = 0
  /\ toggle_inserts = 0

GameIdle == GameInit

\* Frame building a new InGameState whenever the sign-on stage is Done
Frame_NoLoadingCheck ==
  /\ \E stage \in SignOnStages :
       /\ signon_stage' = stage
       /\ IF stage = "Done"
          THEN /\ game_state' = "InGame"
               /\ focus' = Some("Game")
               /\ cmds' = cmds \cup {"toggleconsole", "togglemenu"}
               /\ toggle_inserts' = toggle_inserts + 1
          ELSE UNCHANGED <<game_state, focus, cmds, toggle_inserts>>
  /\ UNCHANGED <<input_focus, events, exec, overlay, inputs, rendererVars, shaderVars>>

\* Game::frame; client.frame may move the sign-on stage
Frame ==
  /\ \E stage \in SignOnStages :
       /\ signon_stage' = stage
       /\ IF game_state = "Loading" /\ stage = "Done"
          THEN /\ game_state' = "InGame"
               /\ focus' = Some("Game")
               /\ cmds' = cmds \cup {"toggleconsole", "togglemenu"}
               /\ toggle_inserts' = toggle_inserts + 1
          ELSE UNCHANGED <<game_state, focus, cmds, toggle_inserts>>
  /\ UNCHANGED <<input_focus, events, exec, overlay, inputs, rendererVars, shaderVars>>

\* the InputFocus set for an InGameFocus
InputFocusFor(f) ==
  CASE f = "Game" -> "Game"
    [] f = "Menu" -> "Menu"
    [] f = "Console" -> "Console"

\* HandleInput forwarding the event before it sets the focus
HandleInput_ForwardsFirst ==
  /\ inputs < MaxEvents
  /\ inputs' = inputs + 1
  /\ \E event \in Events :
       IF game_state = "Loading"
       THEN UNCHANGED <<input_focus, events>>
       ELSE /\ events' = Append(events, [event |-> event, focus |-> input_focus])
            /\ input_focus' = InputFocusFor(Unwrap(focus))
  /\ UNCHANGED <<game_state, focus, cmds, signon_stage, exec, overlay, toggle_inserts,
                 rendererVars, shaderVars>>

\* Game::handle_input
HandleInput ==
  /\ inputs < MaxEvents
  /\ inputs' = inputs + 1
  /\ \E event \in Events :
       IF game_state = "Loading"
       THEN UNCHANGED <<input_focus, events>>
       ELSE /\ input_focus' = InputFocusFor(Unwrap(focus))
            /\ events' = Append(events, [event |-> event, focus |-> input_focus'])
  /\ UNCHANGED <<game_state, focus, cmds, signon_stage, exec, overlay, toggle_inserts,
                 rendererVars, shaderVars>>

\* the CmdRegistry runs a registered command
ExecCmd ==
  /\ \E cmd \in cmds :
       /\ exec' = Some([cmd |-> cmd, before |-> focus])
       /\ focus' = CASE cmd = "toggleconsole" -> Some(toggleconsole(Unwrap(focus)))
                     [] cmd = "togglemenu" -> Some(togglemenu(Unwrap(focus)))
                     [] OTHER -> focus
  /\ UNCHANGED <<game_state, cmds, signon_stage, input_focus, events, overlay,
                 inputs, toggle_inserts, rendererVars, shaderVars>>

\* Game::render: what it draws over the world and the HUD
GameRender ==
  /\ overlay' = IF game_state = "Loading" THEN "none"
                ELSE CASE Unwrap(focus) = "Game" -> "world"
                       [] Unwrap(focus) = "Console" -> "console"
                       [] Unwrap(focus) = "Menu" -> "menu"
  /\ UNCHANGED <<game_state, focus, cmds, signon_stage, input_focus, events, exec,
                 inputs, toggle_inserts, rendererVars, shaderVars>>

(* --------------------------- specifications ---------------------------- *)
RendererIdle ==
  /\ bsp_faces = <<>>
  /\ bsp_model = [face_id |-> 0, face_count |-> 0]
  /\ pc = "start"
  /\ vertices = <<>>
  /\ face_iter = 0
  /\ call = NoCall
  /\ faces = <<>>
  /\ vertex_buffer = <<>>
  /\ lightmap_views = <<>>
  /\ texture_views = <<>>
  /\ render_result = "none"
  /\ render_args = <<>>
  /\ draws = <<>>
  /\ first = None

\* the brush renderer over every level of the bounded family
Init == RendererInit /\ ShaderIdle /\ GameIdle
Next == NewBegin \/ NewFace \/ NewFinish \/ Render
Spec == Init /\ [][Next]_vars

\* the brush renderer built twice over the same level
NextTwice == NewBegin \/ NewFace \/ NewFinish \/ NewAgain
SpecTwice == Init /\ [][NextTwice]_vars

\* the fragment shader over every uniform vector
InitShader == RendererIdle /\ ShaderInit /\ GameIdle
NextShader == FragmentMain
SpecShader == InitShader /\ [][NextShader]_vars

\* the game state machine
InitGame == RendererIdle /\ ShaderIdle /\ GameInit
NextGame == Frame \/ HandleInput \/ ExecCmd \/ GameRender
SpecGame == InitGame /\ [][NextGame]_vars

(* ------------------------------ properties ----------------------------- *)
\* the level face a create_brush_render_face call was about
CallFace == At(bsp_faces, call.face_id)
Called == call.face_id >= 0
\* the level face behind the k-th face record (k is 0-based)
SourceFace(k) == At(bsp_faces, bsp_model.face_id + k)
\* L[k]: vertex_ids[direction] of the k-th edge-list entry of a face
LoopVertex(face, k) ==
  LET entry == BspEdgelist[face.edge_id + k + 1]
  IN BspEdges[entry.index + 1].vertex_ids[entry.direction + 1]
FanCount(n) == IF n >= 3 THEN 3 * (n - 2) ELSE 0

\* C1 (as claimed): every create_brush_render_face call on a face with n edges
\* completes normally, appends 3*(n-2) vertices when n >= 3 and none when
\* n < 3, and the returned slice is as long as the number of vertices appended.
\* The level's faces with n < 3 are unlit, so no lightmap failure interferes.
C1_AsClaimed ==
  Called =>
    LET n == CallFace.edge_count
    IN /\ n < 3 => call.outcome = "ok"
       /\ call.outcome = "ok" =>
            /\ Len(call.pushed) = FanCount(n)
            /\ call.face.slice.end - call.face.slice.start = Len(call.pushed)

\* C2 (as claimed): after a render pass no draw call was issued for a face with
\* fewer than 3 edges, and every face with 3 or more edges was drawn.
C2_AsClaimed ==
  render_result = "ok" =>
    \A k \in 0..(Len(faces) - 1) :
      LET drawn == \E d \in 1..Len(draws) : draws[d].slice = At(faces, k).slice
      IN IF SourceFace(k).edge_count < 3 THEN ~drawn ELSE drawn

\* C3: the vertices a completed create_brush_render_face call appended are, for
\* i = 1 .. n-2 in increasing order, the triple (L[0], L[i], L[i+1]).
C3_FanOrder ==
  (Called /\ call.outcome = "ok") =>
    LET n == CallFace.edge_count
    IN /\ Len(call.pushed) = FanCount(n)
       /\ \A i \in 1..(n - 2) :
            /\ call.pushed[3 * (i - 1) + 1].position = At(BspVertices, LoopVertex(CallFace, 0))
            /\ call.pushed[3 * (i - 1) + 2].position = At(BspVertices, LoopVertex(CallFace, i))
            /\ call.pushed[3 * (i - 1) + 3].position = At(BspVertices, LoopVertex(CallFace, i + 1))
C3_Witness ==
  /\ Called /\ call.outcome = "ok"
  /\ CallFace.edge_count >= 4
  /\ Len(call.pushed) >= 6

\* w = floor(x / 16) + 1
IsFloorDiv16Plus1(w, x) == 16 * (w - 1) <= x /\ x < 16 * w

\* C4: a completed create_brush_render_face call gives the face a lightmap image
\* iff its texinfo is not special and the face has a sample offset; the image is
\* floor(extents.x/16)+1 by floor(extents.y/16)+1 and holds the width*height
\* bytes at the face's offset; otherwise lightmap_id is None and no image is added.
C4_Lightmap ==
  (Called /\ call.outcome = "ok") =>
    LET lit == (~At(BspTexinfo, CallFace.texinfo_id).special) /\ CallFace.lightmap_id # <<>>
    IN IF lit
       THEN /\ Len(call.images) = 1
            /\ call.face.lightmap_id = <<call.images[1].id>>
            /\ pc \in {"new", "ready"} =>
                  /\ call.images[1].id = Len(lightmap_views) - 1
                  /\ lightmap_views[Len(lightmap_views)] = call.images[1]
            /\ LET image == call.images[1]
                   ofs == CallFace.lightmap_id[1]
               IN /\ IsFloorDiv16Plus1(image.width, CallFace.extents[1])
                  /\ IsFloorDiv16Plus1(image.height, CallFace.extents[2])
                  /\ Len(image.data) = image.width * image.height
                  /\ \A b \in 1..Len(image.data) : image.data[b] = BspLightmaps[ofs + b]
       ELSE /\ call.face.lightmap_id = <<>>
            /\ call.images = <<>>
C4_Witness ==
  /\ Called /\ call.outcome = "ok"
  /\ Len(call.images) = 1
  /\ call.images[1].width = 3 /\ call.images[1].height = 4

\* C6 (as claimed): when a lit face's sample range offset + width*height
\* exceeds the sample buffer, BrushRenderer::new returns an error value.
C6_AsClaimed ==
  (/\ Called
   /\ WantsLightmap(CallFace, At(BspTexinfo, CallFace.texinfo_id))
   /\ ~LightmapInBounds(CallFace)) => pc = "err"

\* the image create_brush_render_face makes for a lit level face
OwnSamples(face) ==
  [b \in 1..((face.extents[1] \div 16 + 1) * (face.extents[2] \div 16 + 1)) |->
     BspLightmaps[face.lightmap_id[1] + b]]
\* number of face records before the k-th that have a lightmap image
LitBefore(k) == Cardinality({j \in 0..(k - 1) : At(faces, j).lightmap_id # <<>>})

\* C7: in every draw call of a render pass the bound lightmap is the drawn
\* face's own image when it has one and the placeholder lightmap otherwise.
C7_LightmapBinding ==
  render_result = "ok" =>
    /\ Len(draws) = Len(faces)
    /\ \A k \in 0..(Len(faces) - 1) :
         LET bound == At(draws, k).data.lightmap_sampler
         IN IF At(faces, k).lightmap_id # <<>>
            THEN /\ bound.kind = "lightmap"
                 /\ bound.id = LitBefore(k)
                 /\ bound.data = OwnSamples(SourceFace(k))
            ELSE bound = DummyLightmap
\* a face without a lightmap is drawn right after a face with one
C7_Witness ==
  /\ render_result = "ok"
  /\ Len(faces) >= 2
  /\ \E k \in 1..(Len(faces) - 1) :
       /\ faces[k].lightmap_id # <<>>
       /\ faces[k + 1].lightmap_id = <<>>
       /\ draws[k + 1].data.lightmap_sampler = DummyLightmap

\* the intensity lanes render sends for a face record
ExpectedLanes(face, lightstyle_values) ==
  [i \in 1..4 |-> IF face.light_styles[i] < Len(lightstyle_values)
                  THEN lightstyle_values[face.light_styles[i] + 1] ELSE -Unit]

\* C8: a render pass draws in face-table order: its k-th draw call uses the
\* vertex range, texture frame, lightmap binding and light-style lanes of the
\* k-th face record, there is one draw call per face record, and the pass
\* returns ok only with all of them submitted.
C8_DrawOrder ==
  render_result = "ok" =>
    /\ Len(draws) = Len(faces)
    /\ \A k \in 1..Len(faces) :
         LET frame == texture_frame_for_time(faces[k].tex_id, render_args.time)
         IN /\ draws[k].slice = faces[k].slice
            /\ draws[k].data.diffuse_sampler = [kind |-> "texture", id |-> frame]
            /\ draws[k].data.fullbright_sampler = [kind |-> "fullbright", id |-> frame]
            /\ draws[k].data.lightmap_sampler =
                 (IF faces[k].lightmap_id # <<>>
                  THEN lightmap_views[faces[k].lightmap_id[1] + 1] ELSE DummyLightmap)
            /\ draws[k].data.lightstyle_value =
                 ExpectedLanes(faces[k], render_args.lightstyle_values)
\* a pass over two face records that differ in range, texture, lightmap and lanes
C8_Witness ==
  /\ render_result = "ok"
  /\ Len(faces) = 2 /\ Len(draws) = 2
  /\ faces[1].slice # faces[2].slice
  /\ draws[1].data.lightstyle_value # draws[2].data.lightstyle_value
  /\ draws[1].slice.end > 0

RECURSIVE SumCounts(_)
SumCounts(k) == IF k = 0 THEN 0 ELSE SumCounts(k - 1) + (faces[k].slice.end - faces[k].slice.start)
\* the face records' vertex ranges tile the vertex buffer
Tiling ==
  /\ Len(faces) = bsp_model.face_count
  /\ Len(faces) > 0 => faces[1].slice.base_vertex + faces[1].slice.start = 0
  /\ \A j \in 1..(Len(faces) - 1) :
       faces[j + 1].slice.base_vertex + faces[j + 1].slice.start =
         faces[j].slice.base_vertex + faces[j].slice.end
  /\ \A j \in 1..Len(faces) : faces[j].slice.start <= faces[j].slice.end
  /\ Len(vertex_buffer) = SumCounts(Len(faces))

\* C10: once BrushRenderer::new has returned a renderer, the face records'
\* vertex ranges tile the vertex buffer (the first starts at 0, each next one
\* starts where the previous ends, the buffer is as long as the sum of the
\* counts), and no later step changes a range or the buffer.
C10_Tiling ==
  /\ [](pc = "ready" => Tiling)
  /\ [][pc = "ready" => (faces' = faces /\ vertex_buffer' = vertex_buffer)]_vars
\* a renderer of two non-empty faces after a render pass
C10_Witness ==
  /\ pc = "ready" /\ render_result = "ok"
  /\ Len(faces) = 2
  /\ faces[1].slice.end > 0 /\ faces[2].slice.end > 0
  /\ faces[2].slice.base_vertex = faces[1].slice.end

(* ------------------------- light-style blending ------------------------ *)
RECURSIVE SumLanes(_, _)
SumLanes(u, S) ==
  IF S = {} THEN 0
  ELSE LET i == CHOOSE j \in S : TRUE IN u[i] + SumLanes(u, S \ {i})
ActiveLanes(u) == {i \in 1..4 : u[i] # -Unit}
\* the active lanes that come before the first inactive lane
LeadingLanes(u) == {i \in 1..4 : \A j \in 1..i : u[j] # -Unit}
\* the fraction f equals the mean of the lanes S of u, or 1.0 when S is empty
IsMeanOf(f, u, S) ==
  IF S = {} THEN f[1] = Unit * f[2]
  ELSE f[1] * Cardinality(S) = SumLanes(u, S) * f[2]

\* C5 (as claimed): the light factor is the mean of all active lanes, whatever
\* positions they occupy, and 1.0 when all four lanes are inactive.
C5_AsClaimed ==
  IsSome(light_factor) =>
    IsMeanOf(Unwrap(light_factor), u_LightstyleValue, ActiveLanes(u_LightstyleValue))

\* C5 (amended): the light factor is the mean of the active lanes that come
\* before the first inactive lane, and 1.0 when lane 0 is inactive.
C5_LeadingMean ==
  IsSome(light_factor) =>
    IsMeanOf(Unwrap(light_factor), u_LightstyleValue, LeadingLanes(u_LightstyleValue))
\* the shader has run on a vector with an active lane behind an inactive one
C5_Witness ==
  /\ IsSome(light_factor)
  /\ u_LightstyleValue[1] # -Unit
  /\ u_LightstyleValue[2] = -Unit
  /\ u_LightstyleValue[3] # -Unit
  /\ u_LightstyleValue[3] # u_LightstyleValue[1]
  /\ Unwrap(light_factor) = <<u_LightstyleValue[1], 1>>

(* --------------------------- focus transitions ------------------------- *)
\* the transition table as claimed: the toggles swap Game with Console and
\* Game with Menu, every other pair keeps the focus
ClaimedTable(cmd, f) ==
  IF cmd = "toggleconsole" /\ f = "Game" THEN "Console"
  ELSE IF cmd = "toggleconsole" /\ f = "Console" THEN "Game"
  ELSE IF cmd = "togglemenu" /\ f = "Game" THEN "Menu"
  ELSE IF cmd = "togglemenu" /\ f = "Menu" THEN "Game"
  ELSE f
\* the same table with togglemenu also moving Console to Game
AmendedTable(cmd, f) ==
  IF cmd = "togglemenu" /\ f = "Console" THEN "Game" ELSE ClaimedTable(cmd, f)

\* C9 (as claimed): a command leaves the focus the claimed table gives.
C9_AsClaimed ==
  (IsSome(exec) /\ IsSome(Unwrap(exec).before)) =>
    Unwrap(focus) = ClaimedTable(Unwrap(exec).cmd, Unwrap(Unwrap(exec).before))

\* C9 (amended): toggleconsole moves Game to Console and Console to Game;
\* togglemenu moves Game to Menu, Menu to Game and Console to Game; every
\* other (command, focus) pair leaves the focus unchanged.
C9_TransitionTable ==
  (IsSome(exec) /\ IsSome(Unwrap(exec).before)) =>
    Unwrap(focus) = AmendedTable(Unwrap(exec).cmd, Unwrap(Unwrap(exec).before))
\* togglemenu has run in the console
C9_Witness ==
  /\ exec = Some([cmd |-> "togglemenu", before |-> Some("Console")])
  /\ focus = Some("Game")

C12_Lanes ==
  render_result = "ok" =>
    \A k \in 1..Len(draws) : \A i \in 1..4 :
      LET style == faces[k].light_styles[i]
          values == render_args.lightstyle_values
          lane == draws[k].data.lightstyle_value[i]
      IN /\ style \in 0..(Len(values) - 1) => lane = values[style + 1]
         /\ style \notin 0..(Len(values) - 1) => lane = -Unit
\* a face with an inactive slot drawn right after a face whose same slot is active
C12_Witness ==
  /\ render_result = "ok"
  /\ Len(draws) = 2
  /\ draws[1].data.lightstyle_value[1] # -Unit
  /\ draws[2].data.lightstyle_value[1] = -Unit
  /\ draws[2].data.lightstyle_value[2] # -Unit

(* ---------------------------- focus paths ------------------------------ *)
\* C13: the focus, once it exists, is always one of Game, Menu, Console; no
\* single step takes it from Console to Menu or from Menu to Console; and from
\* every focus other than Game one command leads to Game.
C13_ThroughGame ==
  /\ [](IsSome(focus) => Unwrap(focus) \in InGameFocus)
  /\ [][~(focus = Some("Console") /\ focus' = Some("Menu")) /\
        ~(focus = Some("Menu") /\ focus' = Some("Console"))]_vars
  /\ [](IsSome(focus) =>
          (focus = Some("Game") \/ ENABLED (ExecCmd /\ focus' = Some("Game"))))
\* toggleconsole has run in the menu and the menu is still open
C13_Witness ==
  /\ exec = Some([cmd |-> "toggleconsole", before |-> Some("Menu")])
  /\ focus = Some("Menu")

(* ------------------------------ Game.state ----------------------------- *)
\* C14: a Game starts in Loading; it becomes InGame only in a frame step that
\* finds the sign-on stage Done, and then with focus Game; once InGame it stays
\* InGame; so the toggle commands are inserted at most once.
C14_LoadingOnce ==
  /\ game_state = "Loading"
  /\ [][(game_state = "Loading" /\ game_state' = "InGame") =>
          /\ signon_stage' = "Done"
          /\ focus' = Some("Game")
          /\ {"toggleconsole", "togglemenu"} \subseteq cmds'
          /\ inputs' = inputs /\ exec' = exec /\ overlay' = overlay]_vars
  /\ [][game_state = "InGame" => game_state' = "InGame"]_vars
  /\ [](toggle_inserts <= 1)
  /\ [](game_state = "Loading" => (toggle_inserts = 0 /\ focus = None))
\* still InGame, with one insertion, after frames that found other stages,
\* input and a render
C14_Witness ==
  /\ game_state = "InGame"
  /\ toggle_inserts = 1
  /\ signon_stage = "Not"
  /\ inputs > 0
  /\ overlay # "none"

(* --------------------------- Game::handle_input ------------------------ *)
\* C15: a handle_input call in state Loading changes neither the input focus
\* nor the forwarded events; a call in state InGame sets the input focus to
\* the value matching the in-game focus and forwards exactly one event, which
\* Input receives under that focus.
C15_HandleInput ==
  [][inputs' # inputs =>
       IF game_state = "Loading"
       THEN input_focus' = input_focus /\ events' = events
       ELSE /\ input_focus' = Unwrap(focus)
            /\ Len(events') = Len(events) + 1
            /\ \A e \in 1..Len(events) : events'[e] = events[e]
            /\ events'[Len(events')].focus = Unwrap(focus)]_vars
\* one event was discarded while loading and a later one reached Input in the
\* console
C15_Witness ==
  /\ game_state = "InGame"
  /\ inputs = 2
  /\ Len(events) = 1
  /\ events[1].focus = "Console"
  /\ input_focus = "Console"
====
